---- MODULE Spec2Model ----
(***************************************************************************)
(* A model of vocab.py: the prefix-grouping word trie (WordTrie) and the   *)
(* normalisation of a Word against it (Word.normalize).                    *)
(*                                                                         *)
(* A Python str is a sequence of one-character strings.  A dict is a       *)
(* function whose DOMAIN is its key set.  Python's None is the empty set   *)
(* and a value x that may also be None is the singleton {x}.               *)
(***************************************************************************)
EXTENDS Integers, Sequences, FiniteSets, TLC

VARIABLES words, constructed, data, op, arg, pos, ret, raised

vars == <<words, constructed, data, op, arg, pos, ret, raised>>

(***************************************************************************)
(* Bounds of the enumerated inputs.                                        *)
(***************************************************************************)
MaxLen == 2
MaxWords == 3
MaxProbeLen == 3

Alphabet == {"e", "n"}

Strings(n) == UNION {[1..k -> Alphabet] : k \in 0..n}

SeqsOver(S, n) == UNION {[1..k -> S] : k \in 0..n}

(***************************************************************************)
(* The word list of the specification's scenario and probes around it.     *)
(***************************************************************************)
be == <<"b", "e">>
bekommen == <<"b", "e", "k", "o", "m", "m", "e", "n">>
bekommst == <<"b", "e", "k", "o", "m", "m", "s", "t">>
besuchen == <<"b", "e", "s", "u", "c", "h", "e", "n">>
gut == <<"g", "u", "t">>
gute == <<"g", "u", "t", "e">>
guten == <<"g", "u", "t", "e", "n">>
guter == <<"g", "u", "t", "e", "r">>
gutes == <<"g", "u", "t", "e", "s">>
gutem == <<"g", "u", "t", "e", "m">>

ScenarioWords == <<be, bekommen, bekommst, besuchen, gut>>

ScenarioSeqs == {ScenarioWords, <<gut, gute, guten>>, <<bekommen, gut>>}

ScenarioProbes == {be, bekommen, bekommst, besuchen, gut, gute, guten, guter,
                   gutes, gutem}

InputSeqs == SeqsOver(Strings(MaxLen), MaxWords)

Probes(ws) == IF ws \in ScenarioSeqs THEN ScenarioProbes ELSE Strings(MaxProbeLen)

PosLists == {<<>>, <<"noun", "adjective">>}

(***************************************************************************)
(* Python values.                                                          *)
(***************************************************************************)
None == {}

Some(x) == {x}

Val(o) == CHOOSE x \in o : TRUE

EmptyDict == [k \in {} |-> {}]

Range(s) == {s[i] : i \in 1..Len(s)}

\* s[:i]
Take(s, i) == SubSeq(s, 1, i)

\* s.endswith(e)
endswith(s, e) == Len(e) <= Len(s) /\ SubSeq(s, Len(s) - Len(e) + 1, Len(s)) = e

\* a variant that tests the end of other instead of its start
is_prefix_at_end(s, other) == endswith(other, s)

\* other.startswith(s)
is_prefix(s, other) == Len(s) <= Len(other) /\ Take(other, Len(s)) = s

Endings == <<(<<"e">>), <<"e", "n">>, <<"e", "r">>, <<"e", "s">>, <<"e", "m">>>>

RECURSIVE strip_loop(_, _, _)
strip_loop(s, endings, k) ==
    IF k > Len(endings) THEN s
    ELSE IF endswith(s, endings[k]) THEN Take(s, Len(s) - Len(endings[k]))
    ELSE strip_loop(s, endings, k + 1)

strip_adjective(s) == strip_loop(s, Endings, 1)

\* Word._NORMALIZERS: part of speech -> normalizer
NORMALIZERS == {"adjective"}

ApplyNormalizer(name, s) == IF name = "adjective" THEN strip_adjective(s) ELSE s

(***************************************************************************)
(* WordTrie._prefix_groups                                                 *)
(***************************************************************************)
RECURSIVE GroupLoop(_, _, _, _, _)
GroupLoop(ws, i, prefix, groups, current_group) ==
    IF i > Len(ws)
    THEN [prefix |-> prefix, groups |-> groups, current_group |-> current_group]
    ELSE LET word == ws[i] IN
         IF prefix = None
         THEN GroupLoop(ws, i + 1, Some(word), groups, current_group)
         ELSE IF is_prefix(Val(prefix), word)
         THEN GroupLoop(ws, i + 1, prefix, groups, Append(current_group, word))
         ELSE GroupLoop(ws, i + 1, Some(word),
                        (Val(prefix) :> current_group) @@ groups, <<>>)

\* "if prefix:" -- None and the empty string are both falsy
Truthy(prefix) == prefix # None /\ Len(Val(prefix)) > 0

\* a variant that forgets the group still open when the words run out
FlushLast_forgotten(r) == r.groups

FlushLast(r) ==
    IF Truthy(r.prefix)
    THEN (Val(r.prefix) :> r.current_group) @@ r.groups
    ELSE r.groups

Leaves(new_words) == [w \in Range(new_words) |-> EmptyDict]

RECURSIVE _prefix_groups(_)
_prefix_groups(ws) ==
    LET groups == FlushLast(GroupLoop(ws, 1, None, EmptyDict, <<>>))
    IN  [new_prefix \in DOMAIN groups |->
            LET new_words == groups[new_prefix]
                new_groups == _prefix_groups(new_words)
            IN  IF DOMAIN new_groups # {}
                THEN new_groups
                ELSE Leaves(new_words)]

(***************************************************************************)
(* WordTrie._search and WordTrie.search                                    *)
(***************************************************************************)
\* a variant that also records the exact match
AppendPrefix_always(prefixes, prefix, word) == Append(prefixes, prefix)

\* a variant that puts the prefix of this level before those found below it
AppendPrefix_in_front(prefixes, prefix, word) ==
    IF prefix # word THEN <<prefix>> \o prefixes ELSE prefixes

\* "if prefix != word: prefixes.append(prefix)"
AppendPrefix(prefixes, prefix, word) ==
    IF prefix # word THEN Append(prefixes, prefix) ELSE prefixes

RECURSIVE _search(_, _, _)
RECURSIVE SearchLoop(_, _, _, _, _)
SearchLoop(word, i_start, d, i, st) ==
    IF i > Len(word) THEN st
    ELSE LET prefix == Take(word, i) IN
         IF prefix \in DOMAIN d
         THEN LET r == _search(word, i_start, d[prefix])
                  prefixes == AppendPrefix(r.prefixes, prefix, word)
              IN  IF r.subtree # None
                  THEN SearchLoop(word, i_start, d, i + 1,
                           [prefixes |-> prefixes, subtree |-> r.subtree,
                            i_end |-> r.i_end])
                  ELSE SearchLoop(word, i_start, d, i + 1,
                           [prefixes |-> prefixes, subtree |-> Some(d[prefix]),
                            i_end |-> i])
         ELSE SearchLoop(word, i_start, d, i + 1, st)

\* a variant that returns the subtree without testing that the word is consumed
_search_unchecked(word, i_start, d) ==
    SearchLoop(word, i_start, d, i_start,
               [prefixes |-> <<>>, subtree |-> None, i_end |-> i_start])

\* a variant that returns no prefixes when the word is not consumed
_search_all_or_nothing(word, i_start, d) ==
    LET st == SearchLoop(word, i_start, d, i_start,
                         [prefixes |-> <<>>, subtree |-> None, i_end |-> i_start])
    IN  IF st.i_end < Len(word)
        THEN [prefixes |-> <<>>, subtree |-> None, i_end |-> st.i_end]
        ELSE st

\* a variant that tests "i_end <= len(word)"
_search_off_by_one(word, i_start, d) ==
    LET st == SearchLoop(word, i_start, d, i_start,
                         [prefixes |-> <<>>, subtree |-> None, i_end |-> i_start])
    IN  IF st.i_end <= Len(word)
        THEN [prefixes |-> st.prefixes, subtree |-> None, i_end |-> st.i_end]
        ELSE st

_search(word, i_start, d) ==
    LET st == SearchLoop(word, i_start, d, i_start,
                         [prefixes |-> <<>>, subtree |-> None, i_end |-> i_start])
    IN  IF st.i_end < Len(word)
        THEN [prefixes |-> st.prefixes, subtree |-> None, i_end |-> st.i_end]
        ELSE st

search(word, d) ==
    LET r == _search(word, 0, d)
    IN  [prefixes |-> r.prefixes, subtree |-> r.subtree]

(***************************************************************************)
(* WordTrie._contains and WordTrie.__contains__                            *)
(***************************************************************************)
RECURSIVE _contains(_, _, _)
\* a variant that resumes the scan one character after the matched prefix
_contains_resume_after(word, i_start, d) ==
    \/ word \in DOMAIN d
    \/ \E i \in i_start..Len(word) :
          LET prefix == Take(word, i)
          IN  prefix \in DOMAIN d /\ _contains(word, i + 1, d[prefix])

\* a variant that accepts a word as soon as one of its prefixes is a key
_contains_any_prefix(word, i_start, d) ==
    \/ word \in DOMAIN d
    \/ \E i \in i_start..Len(word) : Take(word, i) \in DOMAIN d

_contains(word, i_start, d) ==
    \/ word \in DOMAIN d
    \/ \E i \in i_start..Len(word) :
          LET prefix == Take(word, i)
          IN  prefix \in DOMAIN d /\ _contains(word, i, d[prefix])

contains(word, d) == _contains(word, 0, d)

(***************************************************************************)
(* Word.normalize                                                          *)
(***************************************************************************)
\* "for pos in self.pos: if pos in self._NORMALIZERS: normalizers.append(...)"
CollectNormalizers(p) == SelectSeq(p, LAMBDA t : t \in NORMALIZERS)

\* self._NORMALIZERS.values()
AllNormalizers == <<"adjective">>

\* The else clause of a for loop runs whenever the loop ends without break.
\* This loop has no break, so the collected list is always replaced.
SelectNormalizers(p) ==
    LET loop_broke == FALSE
    IN  IF loop_broke THEN CollectNormalizers(p) ELSE AllNormalizers

\* a variant that returns the stripped form without looking it up
NormalizeLoop_unchecked(word, normalizers, prefixes, k) ==
    IF k > Len(normalizers) THEN word
    ELSE ApplyNormalizer(normalizers[k], word)

RECURSIVE NormalizeLoop(_, _, _, _)
NormalizeLoop(word, normalizers, prefixes, k) ==
    IF k > Len(normalizers) THEN word
    ELSE LET normalized == ApplyNormalizer(normalizers[k], word)
         IN  IF normalized \in Range(prefixes)
             THEN normalized
             ELSE NormalizeLoop(word, normalizers, prefixes, k + 1)

normalize(word, p, d) ==
    NormalizeLoop(word, SelectNormalizers(p), search(word, d).prefixes, 1)

(***************************************************************************)
(* The state machine: the caller builds a trie from a word sequence, then  *)
(* queries it.  The trie has no mutator and the queries are pure, so each  *)
(* behaviour issues one query: op is "none" until the query has run.       *)
(***************************************************************************)
Init ==
    /\ words \in InputSeqs \cup ScenarioSeqs
    /\ constructed = FALSE
    /\ data = EmptyDict
    /\ op = "none"
    /\ arg = <<>>
    /\ pos = <<>>
    /\ ret = None
    /\ raised = "none"

\* WordTrie.__init__
Construct ==
    /\ ~constructed
    /\ op = "none"
    /\ constructed' = TRUE
    /\ data' = _prefix_groups(words)
    /\ UNCHANGED <<words, op, arg, pos, ret, raised>>

\* WordTrie.search
Search ==
    /\ constructed
    /\ op = "none"
    /\ \E w \in Probes(words) :
          /\ op' = "search"
          /\ arg' = w
          /\ ret' = Some(search(w, data))
    /\ pos' = <<>>
    /\ raised' = "none"
    /\ UNCHANGED <<words, constructed, data>>

\* WordTrie.__contains__
Contains ==
    /\ constructed
    /\ op = "none"
    /\ \E w \in Probes(words) :
          /\ op' = "contains"
          /\ arg' = w
          /\ ret' = Some(contains(w, data))
    /\ pos' = <<>>
    /\ raised' = "none"
    /\ UNCHANGED <<words, constructed, data>>

\* Word(w, pos=p, wordtrie=trie).normalize(); the trie is None until it is
\* built, and then the call raises before it reads self.word or self.pos
Normalize ==
    /\ op = "none"
    /\ op' = "normalize"
    /\ IF ~constructed
       THEN /\ raised' = "ValueError"
            /\ UNCHANGED <<arg, pos, ret>>
       ELSE \E w \in Probes(words), p \in PosLists :
               /\ arg' = w
               /\ pos' = p
               /\ ret' = Some(normalize(w, p, data))
               /\ raised' = "none"
    /\ UNCHANGED <<words, constructed, data>>

Next == Construct \/ Search \/ Contains \/ Normalize

Spec == Init /\ [][Next]_vars

(***************************************************************************)
(* Vocabulary of the properties.  These definitions are independent of the *)
(* operators above that model the code.                                    *)
(***************************************************************************)
\* p is a literal (character-sequence) prefix of w
LiteralPrefix(p, w) == \E n \in 0..Len(w) : SubSeq(w, 1, n) = p

\* code-point order of the letters in use
CharOrder == <<"b", "c", "e", "g", "h", "k", "m", "n", "o", "r", "s", "t", "u">>

Ord(c) == CHOOSE n \in 1..Len(CharOrder) : CharOrder[n] = c

\* a <= b in Python's string order
StrLeq(a, b) ==
    \/ LiteralPrefix(a, b)
    \/ \E n \in 1..Len(a) :
          /\ n <= Len(b)
          /\ SubSeq(a, 1, n - 1) = SubSeq(b, 1, n - 1)
          /\ Ord(a[n]) < Ord(b[n])

\* ws == sorted(ws)
IsSorted(ws) == \A n \in 1..(Len(ws) - 1) : StrLeq(ws[n], ws[n + 1])

NonEmptyWords(ws) == \A n \in 1..Len(ws) : Len(ws[n]) > 0

\* the keys of a nested mapping, at any depth
RECURSIVE AllKeys(_)
AllKeys(d) == DOMAIN d \cup UNION {AllKeys(d[k]) : k \in DOMAIN d}

\* the chain of nested keys that are each a literal prefix of w
RECURSIVE PathKeys(_, _)
PathKeys(w, d) ==
    UNION {{k} \cup PathKeys(w, d[k]) : k \in {x \in DOMAIN d : LiteralPrefix(x, w)}}

RECURSIVE KeysBelowStartWithKey(_)
KeysBelowStartWithKey(d) ==
    \A p \in DOMAIN d :
        /\ \A k \in AllKeys(d[p]) : LiteralPrefix(p, k)
        /\ KeysBelowStartWithKey(d[p])

Searched == op = "search"

Found == Val(ret)

NotFound == [prefixes |-> <<>>, subtree |-> None]

\* the form of w with ending e removed
Without(w, e) == SubSeq(w, 1, Len(w) - Len(e))

HasEnding(w, e) ==
    Len(e) <= Len(w) /\ SubSeq(w, Len(w) - Len(e) + 1, Len(w)) = e

TheEndings == {<<"e">>, <<"e", "n">>, <<"e", "r">>, <<"e", "s">>, <<"e", "m">>}

(***************************************************************************)
(* C1                                                                      *)
(***************************************************************************)
\* C1 as stated: for every word sequence given to the constructor and every
\* word w of that sequence, "w in trie" is true.
C1_EveryInputWordIsContained ==
    (op = "contains" /\ arg \in Range(words)) => ret = Some(TRUE)

\* C1 amended: for every sorted sequence of non-empty words given to the
\* constructor and every word w of that sequence, "w in trie" is true.
C1_EverySortedInputWordIsContained ==
    (op = "contains" /\ arg \in Range(words) /\ IsSorted(words)
        /\ NonEmptyWords(words))
    => ret = Some(TRUE)

\* a word of a sorted input that sits two levels below the root was looked up
C1_Witness ==
    /\ op = "contains" /\ arg \in Range(words)
    /\ IsSorted(words) /\ NonEmptyWords(words)
    /\ arg \notin DOMAIN data
    /\ \E k \in DOMAIN data : arg \notin DOMAIN data[k] /\ arg \in AllKeys(data[k])
    /\ ret = Some(TRUE)

(***************************************************************************)
(* C2                                                                      *)
(***************************************************************************)
\* C2 as stated: for every string w with contains(w) false, search(w)
\* returns exactly ([], None).
C2_AbsentWordSearchIsEmpty ==
    (Searched /\ ~contains(arg, data)) => Found = NotFound

\* C2 amended: for every string w with contains(w) false, search(w) returns
\* no subtree (None), while its prefix list may be non-empty; for the trie
\* built from [be, bekommen, bekommst, besuchen, gut], search("gutes")
\* returns (["gut"], None).
C2_AbsentWordSearchHasNoSubtree ==
    /\ (Searched /\ ~contains(arg, data)) => Found.subtree = None
    /\ (Searched /\ words = ScenarioWords /\ arg = gutes)
       => Found = [prefixes |-> <<gut>>, subtree |-> None]

\* "gutes" was searched in the scenario's trie, which does not contain it
C2_Witness ==
    /\ Searched /\ words = ScenarioWords /\ arg = gutes
    /\ ~contains(arg, data)
    /\ Found.prefixes # <<>>

(***************************************************************************)
(* C3                                                                      *)
(***************************************************************************)
\* C3: the prefix list of search(w) never contains w itself; each element
\* is a literal prefix of w and strictly shorter than w.
C3_PrefixesAreProper ==
    Searched =>
        \A n \in 1..Len(Found.prefixes) :
            /\ Found.prefixes[n] # arg
            /\ LiteralPrefix(Found.prefixes[n], arg)
            /\ Len(Found.prefixes[n]) < Len(arg)

\* a key of the trie that has shorter keys above it was searched
C3_Witness ==
    /\ Searched /\ arg \in AllKeys(data)
    /\ Len(Found.prefixes) >= 1
    /\ Found.subtree # None

(***************************************************************************)
(* C4                                                                      *)
(***************************************************************************)
\* C4 as stated: the prefix list is in outside-in order, a shorter
\* (shallower) prefix comes before a longer (deeper) one.
C4_ShorterPrefixFirst ==
    Searched =>
        \A m, n \in 1..Len(Found.prefixes) :
            (m < n /\ Len(Found.prefixes[m]) # Len(Found.prefixes[n]))
            => Len(Found.prefixes[m]) < Len(Found.prefixes[n])

\* C4 amended: the prefix list is in inside-out order, a longer (deeper)
\* prefix comes before a shorter (shallower) one: each element is a literal
\* prefix of the elements before it.
C4_LongerPrefixFirst ==
    Searched =>
        \A m, n \in 1..Len(Found.prefixes) :
            m < n =>
                /\ Len(Found.prefixes[m]) >= Len(Found.prefixes[n])
                /\ LiteralPrefix(Found.prefixes[n], Found.prefixes[m])

\* a search returned two prefixes of different length
C4_Witness ==
    /\ Searched
    /\ \E m, n \in 1..Len(Found.prefixes) :
          m < n /\ Len(Found.prefixes[m]) > Len(Found.prefixes[n])

(***************************************************************************)
(* C5                                                                      *)
(***************************************************************************)
\* C5: for a trie built from a sorted sequence, every key on the trie path
\* of w that is strictly shorter than w is in the prefix list of search(w),
\* whether or not w is fully consumed.
C5_PrefixesOmitNothing ==
    (Searched /\ IsSorted(words)) =>
        \A k \in PathKeys(arg, data) :
            Len(k) < Len(arg) => k \in Range(Found.prefixes)

\* a search in a sorted trie that did not consume w passed two path keys
C5_Witness ==
    /\ Searched /\ IsSorted(words)
    /\ Found.subtree = None
    /\ Cardinality({k \in PathKeys(arg, data) : Len(k) < Len(arg)}) >= 2

(***************************************************************************)
(* C6                                                                      *)
(***************************************************************************)
\* C6: in the mapping built from any word sequence, every key at any depth
\* below a key p literally starts with p.
C6_KeysBelowStartWithKey == constructed => KeysBelowStartWithKey(data)

\* an unsorted sequence produced a mapping with two keys below one key
C6_Witness ==
    /\ constructed /\ ~IsSorted(words)
    /\ \E p \in DOMAIN data : Cardinality(AllKeys(data[p])) >= 2

(***************************************************************************)
(* C7                                                                      *)
(***************************************************************************)
\* C7: normalize returns either w with one of the endings e, en, er, es, em
\* removed, and only when that form is in the prefix list of search(w), or
\* w unchanged, and only when no such form is in that list; "gute" tagged
\* adjective against a trie with the key "gut" gives "gut".
C7_NormalizeStripsToKnownPrefix ==
    (op = "normalize" /\ raised = "none") =>
        LET prefixes == Range(search(arg, data).prefixes)
            stripped == {Without(arg, e) : e \in {x \in TheEndings : HasEnding(arg, x)}}
        IN  /\ \/ Val(ret) \in stripped /\ Val(ret) \in prefixes
               \/ Val(ret) = arg /\ stripped \cap prefixes = {}
            /\ (arg = gute /\ "adjective" \in Range(pos) /\ gut \in DOMAIN data)
               => ret = Some(gut)

\* "gute", tagged adjective, was normalized to "gut"
C7_Witness ==
    /\ op = "normalize" /\ arg = gute /\ "adjective" \in Range(pos)
    /\ gut \in DOMAIN data
    /\ ret = Some(gut)

(***************************************************************************)
(* C8                                                                      *)
(***************************************************************************)
\* C8: for a trie built from a sorted sequence of non-empty words, search(w)
\* returns a subtree (not None) if and only if contains(w) is true.
C8_SearchAgreesWithContains ==
    /\ (Searched /\ IsSorted(words) /\ NonEmptyWords(words))
       => ((Found.subtree # None) <=> contains(arg, data))
    /\ (op = "contains" /\ IsSorted(words) /\ NonEmptyWords(words))
       => (Val(ret) <=> (search(arg, data).subtree # None))

\* a word two levels below the root of a sorted trie was found by search
C8_Witness ==
    /\ Searched /\ IsSorted(words) /\ NonEmptyWords(words)
    /\ Found.subtree # None
    /\ Len(Found.prefixes) >= 2

(***************************************************************************)
(* C9                                                                      *)
(***************************************************************************)
\* C9: every key at any depth of the built mapping is an element of the
\* input sequence, and contains(w) is true only for elements of it.
C9_NoFalsePositives ==
    /\ constructed => AllKeys(data) \subseteq Range(words)
    /\ (op = "contains" /\ ret = Some(TRUE)) => arg \in Range(words)

\* a string that extends a key but is not a word was looked up and rejected
C9_Witness ==
    /\ op = "contains" /\ arg \notin Range(words)
    /\ \E k \in AllKeys(data) : LiteralPrefix(k, arg)
    /\ ret = Some(FALSE)

(***************************************************************************)
(* C10                                                                     *)
(***************************************************************************)
\* C10 as stated: an input sequence of fewer than 2 elements yields the
\* empty mapping.
C10_ShortInputYieldsNoGroups ==
    (constructed /\ Len(words) < 2) => DOMAIN data = {}

\* C10 amended: the empty sequence yields the empty mapping; a single word w
\* is flushed after the loop as a key with an empty group, so the mapping is
\* {w: {}}, except that the empty string is not flushed and yields the empty
\* mapping.
C10_SingleWordIsFlushed ==
    /\ (constructed /\ Len(words) = 0) => DOMAIN data = {}
    /\ (constructed /\ Len(words) = 1 /\ Len(words[1]) > 0)
       => (DOMAIN data = {words[1]} /\ DOMAIN data[words[1]] = {})
    /\ (constructed /\ Len(words) = 1 /\ Len(words[1]) = 0)
       => DOMAIN data = {}

\* a trie was built from a single non-empty word
C10_Witness ==
    /\ constructed /\ Len(words) = 1 /\ Len(words[1]) > 0
    /\ DOMAIN data = {words[1]}

====
